---- MODULE Spec2Model ----
(***************************************************************************)
(* A model of runner/ssh.go: getSSHPrivateKeySigner, parsePemBlock,        *)
(* getSSHClient, remoteFileReader and withRemoteConnection.                *)
(*                                                                         *)
(* One call of remoteFileReader or of withRemoteConnection is made per     *)
(* behaviour.  The calling goroutine is the program counter pc; the three  *)
(* goroutines withRemoteConnection starts (the accept task and the two     *)
(* copy tasks) have their own counters acc and copyPc.  What the           *)
(* environment answers (the file system, the credential resolver, the      *)
(* network, the callback) is drawn at the step that asks for it.           *)
(*                                                                         *)
(* SpecShape is the part of GetShape and ShapeFromFile: the two functions  *)
(* are written after their description, the json texts, the decoding and   *)
(* the expected shapes after TestGetShape and TestShapeFromFile.           *)
(***************************************************************************)
EXTENDS Integers, Sequences, FiniteSets, TLC

VARIABLES
  op,          \* the function called: "read" or "tunnel" (or a shape test)
  si,          \* the ServerInfo argument (present = FALSE: a nil *ServerInfo)
  pc,          \* position of the calling goroutine
  ret,         \* the error the call returned
  auth,        \* getSSHClient: config.Auth
  keyIdx,      \* getSSHClient: position of the range loop over defaultKeyFiles
  probed,      \* getSSHClient: what each loop iteration found so far
  sshErr,      \* getSSHClient: the error it returns
  sshDials,    \* number of ssh.Dial calls made
  client,      \* the *ssh.Client (the authenticated transport)
  session,     \* remoteFileReader: the ssh session
  started,     \* remoteFileReader: session.Start has started the remote command
  stream,      \* remoteFileReader: the bytes the remote command emits
  bufPos,      \* remoteFileReader: bytes consumed from the bufio.Reader
  magicBytes,  \* remoteFileReader: the result of buffer.Peek(2)
  reader,      \* remoteFileReader: the io.Reader handed to the callback
  fz,          \* remoteFileReader: the gzip reader
  waited,      \* remoteFileReader: session.Wait has been called
  waitErr,     \* remoteFileReader: what session.Wait returned
  cbCalls,     \* number of invocations of the callback
  cbArgs,      \* what the callback was invoked with
  cbInput,     \* remoteFileReader: what the callback's reader yields
  cbErr,       \* what the callback returned
  deferred,    \* the deferred Close calls of the running function, in order
  listener,    \* withRemoteConnection: the net.Listener localConn
  localPort,   \* the port the listener is bound to
  backlog,     \* connections made to the listener and not yet accepted
  accepted,    \* number of connections Accept returned
  remoteConn,  \* withRemoteConnection: the connection client.Dial returned
  remoteDials, \* number of client.Dial calls made
  acc,         \* position of the accept goroutine
  taskErr,     \* the variable err of the accept goroutine, shared by the copy goroutines
  copyPc,      \* position of each copy goroutine
  taskRes,     \* what each goroutine's own Accept or io.Copy returned
  sendVal,     \* the value each goroutine is sending on errC
  errC,        \* the goroutines parked on a send to errC, in arrival order
  mainErr,     \* withRemoteConnection: the variable err after the select
  faultSeen,   \* a goroutine's own result was a fault when the callback returned
  items,       \* shape tests: the elements of the test's array, as indices of ElementTexts
  file,        \* shape tests: test.json, the text written to the file
  shape,       \* what GetShape returned
  bytesToRead, \* the test's bytesToRead
  fileShape,   \* the *Shape ShapeFromFile returned
  fileErr      \* the error ShapeFromFile returned

vars ==
  <<op, si, pc, ret, auth, keyIdx, probed, sshErr, sshDials, client,
    session, started, stream, bufPos, magicBytes, reader, fz, waited, waitErr, cbCalls, cbArgs, cbInput,
    cbErr, deferred,
    listener, localPort, backlog, accepted, remoteConn, remoteDials, acc, taskErr,
    copyPc, taskRes, sendVal, errC, mainErr, faultSeen,
    items, file, shape, bytesToRead, fileShape, fileErr>>

shapeVars == <<items, file, shape, bytesToRead, fileShape, fileErr>>

sshVars == <<auth, keyIdx, probed, sshErr, sshDials, client>>

\* what a return changes: the result and what the deferred calls close
retVars == <<ret, deferred, session, fz, listener, remoteConn>>

readVars == <<started, stream, bufPos, magicBytes, reader, waited, waitErr>>

cbVars == <<cbCalls, cbArgs, cbInput, cbErr>>

sockVars == <<localPort, backlog, accepted, remoteDials>>

taskVars == <<acc, taskErr, copyPc, taskRes, sendVal, errC>>

tunnelVars == <<sockVars, taskVars, mainErr, faultSeen>>

(***************************************************************************)
(* Bounds of the model.                                                    *)
(***************************************************************************)
\* longest byte stream the remote command emits
MaxStreamLen == 4

\* most connections the callback opens to the local port
MaxConns == 2

(***************************************************************************)
(* Values.                                                                 *)
(***************************************************************************)
\* the nil error
Nil == "nil"

\* io.EOF
EOF == "EOF"

\* any other error of the network or of the operating system
Fault == "fault"

\* the error a callback may return
CallbackErr == "callback error"

ErrDecryptPassword == "Could not decrypt server SSH password"

ErrDecryptPassphrase == "Could not decrypt server SSH passphrase"

ErrReadKey == "Unable to read private key"

ErrPemDecode == "Private key decode failed"

ErrDecryptKey == "Decrypting private key failed"

ErrParsePKCS == "Parsing PKCS private key failed"

ErrParseEC == "Parsing EC private key failed"

ErrParseDSA == "Parsing DSA private key failed"

ErrKeyType == "Unsupported private key type"

ErrSigner == "Creating signer from encrypted key failed"

ErrParsePlain == "Parsing plain private key failed"

ErrAgent == "SSH Agent authentication is not supported yet."

ErrConnect == "Could not connect to remote server"

ErrNewSession == "ssh: NewSession failed"

ErrStdoutPipe == "Could not create stdout pipe"

ErrStart == "Could not start session command"

ErrMagic == "Could not read magic number from stream"

ErrGzip == "Could not create gzip reader"

ErrWait == "Could not complete session"

ErrListen == "listen failed"

ErrRemoteDial == "ssh: remote dial failed"

\* the errors getSSHPrivateKeySigner returns
KeyErrors ==
  {ErrReadKey, ErrPemDecode, ErrDecryptKey, ErrParsePKCS, ErrParseEC, ErrParseDSA,
   ErrKeyType, ErrSigner, ErrParsePlain}

\* the errors getSSHClient returns before it dials
AuthErrors == KeyErrors \cup {ErrDecryptPassword, ErrDecryptPassphrase, ErrAgent}

SSHPassword == "password"

SSHPrivateKey == "private-key"

SSHAgent == "agent"

\* home directory that resolvePath puts in the place of a leading "~"
HomeDir == "/home/user"

defaultKeyFiles ==
  << <<"~", ".ssh", "id_rsa">>, <<"~", ".ssh", "id_dsa">>, <<"~", ".ssh", "id_ed25519">> >>

\* an explicit si.PrivateKeyFile
ExplicitKeyFile == <<"~", "keys", "server.pem">>

\* the empty si.PrivateKeyFile
NoKeyFile == <<>>

\* si.Address without and with a port
Addresses == { <<"h">>, <<"h", ":", "2222">> }

\* the target of withRemoteConnection
TargetHost == "db.internal"

TargetPort == "5432"

\* the ephemeral ports net.Listen("tcp", "localhost:0") may bind
EphemeralPorts == {"40001", "40002"}

NoPort == "0"

\* the plaintexts the credential resolver yields
Plaintexts == {"", "s3cret"}

\* the ServerInfo values a call is made with
ServerInfos ==
  { s \in [present : {TRUE}, Type : {SSHPassword, SSHPrivateKey, SSHAgent},
           PrivateKeyFile : {NoKeyFile, ExplicitKeyFile}, Address : Addresses] :
      s.Type # SSHPrivateKey => s.PrivateKeyFile = NoKeyFile }

NoServer ==
  [present |-> FALSE, Type |-> SSHAgent, PrivateKeyFile |-> NoKeyFile, Address |-> <<>>]

NoClient == [open |-> FALSE, auth |-> <<>>, addr |-> <<>>]

\* the content of a private key file: whether it can be read, whether it holds
\* a PEM block, whether the block is encrypted and with which passphrase, the
\* block's type and whether its bytes parse as a key of that type
KeyFiles ==
  [readable : BOOLEAN, pem : BOOLEAN, encrypted : BOOLEAN, pass : Plaintexts,
   type : {"RSA PRIVATE KEY", "EC PRIVATE KEY", "DSA PRIVATE KEY", "OPENSSH PRIVATE KEY"},
   valid : BOOLEAN, signable : BOOLEAN]

(***************************************************************************)
(* Pure functions.                                                         *)
(***************************************************************************)
\* resolvePath: a leading "~" becomes the home directory
ResolvePath(path) ==
  IF path # <<>> /\ Head(path) = "~" THEN <<HomeDir>> \o Tail(path) ELSE path

\* strings.Contains(s, ch)
Contains(s, ch) == \E i \in DOMAIN s : s[i] = ch

\* ssh.Password(password)
Password(password) == [method |-> "password", cred |-> <<password>>]

\* ssh.PublicKeys(signer), the signer named by the file its key came from
PublicKeys(path) == [method |-> "publickey", cred |-> path]

NoAuth == [method |-> "none", cred |-> <<>>]

\* parsePemBlock: the key of a block of a supported type, or the error
parsePemBlock(kf) ==
  CASE kf.type = "RSA PRIVATE KEY" -> IF kf.valid THEN Nil ELSE ErrParsePKCS
    [] kf.type = "EC PRIVATE KEY" -> IF kf.valid THEN Nil ELSE ErrParseEC
    [] kf.type = "DSA PRIVATE KEY" -> IF kf.valid THEN Nil ELSE ErrParseDSA
    [] OTHER -> ErrKeyType

\* getSSHPrivateKeySigner on a file of content kf: [auth, err]
getSSHPrivateKeySigner(privateKeyFile, kf, passphrase) ==
  LET path == ResolvePath(privateKeyFile)
      fail(e) == [auth |-> NoAuth, err |-> e]
  IN  IF ~kf.readable THEN fail(ErrReadKey)
      ELSE IF ~kf.pem THEN fail(ErrPemDecode)
      ELSE IF kf.encrypted
        THEN IF passphrase # kf.pass THEN fail(ErrDecryptKey)
             ELSE IF parsePemBlock(kf) # Nil THEN fail(parsePemBlock(kf))
             ELSE IF ~kf.signable THEN fail(ErrSigner)
             ELSE [auth |-> PublicKeys(path), err |-> Nil]
        ELSE IF ~kf.valid THEN fail(ErrParsePlain)
             ELSE [auth |-> PublicKeys(path), err |-> Nil]

\* si.Address with the default port appended when it names none
DialAddress(address) ==
  IF ~Contains(address, ":") THEN address \o <<":", "22">> ELSE address

(***************************************************************************)
(* getSSHClient.                                                           *)
(***************************************************************************)
\* case SSHPassword
SSHSwitchPassword ==
  /\ pc = "ssh_switch"
  /\ si.Type = SSHPassword
  /\ \/ /\ sshErr' = ErrDecryptPassword
        /\ pc' = "ssh_return"
        /\ auth' = auth
     \/ \E password \in Plaintexts :
          /\ auth' = <<Password(password)>>
          /\ pc' = "ssh_dial"
          /\ sshErr' = sshErr
  /\ UNCHANGED <<shapeVars, op, si, retVars, keyIdx, probed, sshDials, client,
                 readVars, cbVars, tunnelVars>>

\* case SSHPrivateKey with si.PrivateKeyFile set
SSHSwitchExplicitKey ==
  /\ pc = "ssh_switch"
  /\ si.Type = SSHPrivateKey
  /\ si.PrivateKeyFile # NoKeyFile
  /\ \/ /\ sshErr' = ErrDecryptPassphrase
        /\ pc' = "ssh_return"
        /\ auth' = auth
     \/ \E passphrase \in Plaintexts, kf \in KeyFiles :
          LET r == getSSHPrivateKeySigner(si.PrivateKeyFile, kf, passphrase)
          IN  IF r.err # Nil
                THEN /\ sshErr' = r.err
                     /\ pc' = "ssh_return"
                     /\ auth' = auth
                ELSE /\ auth' = <<r.auth>>
                     /\ pc' = "ssh_dial"
                     /\ sshErr' = sshErr
  /\ UNCHANGED <<shapeVars, op, si, retVars, keyIdx, probed, sshDials, client,
                 readVars, cbVars, tunnelVars>>

\* case SSHPrivateKey without a key file: enter the loop over defaultKeyFiles
SSHSwitchDefaultKeys ==
  /\ pc = "ssh_switch"
  /\ si.Type = SSHPrivateKey
  /\ si.PrivateKeyFile = NoKeyFile
  /\ keyIdx' = 1
  /\ pc' = "ssh_probe"
  /\ UNCHANGED <<shapeVars, op, si, retVars, auth, probed, sshErr, sshDials, client,
                 readVars, cbVars, tunnelVars>>

\* one iteration of the loop: os.Stat, then getSSHPrivateKeySigner(resolved, "")
SSHProbeDefaultKey ==
  /\ pc = "ssh_probe"
  /\ keyIdx <= Len(defaultKeyFiles)
  /\ LET resolved == ResolvePath(defaultKeyFiles[keyIdx])
     IN  \/ /\ probed' = Append(probed, "absent")
            /\ keyIdx' = keyIdx + 1
            /\ UNCHANGED <<pc, auth, sshErr>>
         \/ \E kf \in KeyFiles :
              LET r == getSSHPrivateKeySigner(resolved, kf, "")
              IN  IF r.err # Nil
                    THEN /\ sshErr' = r.err
                         /\ probed' = Append(probed, r.err)
                         /\ pc' = "ssh_return"
                         /\ UNCHANGED <<auth, keyIdx>>
                    ELSE /\ auth' = <<r.auth>>
                         /\ probed' = Append(probed, "signer")
                         /\ keyIdx' = keyIdx + 1
                         /\ UNCHANGED <<pc, sshErr>>
  /\ UNCHANGED <<shapeVars, op, si, retVars, sshDials, client, readVars, cbVars, tunnelVars>>

\* the loop is over
SSHProbeDone ==
  /\ pc = "ssh_probe"
  /\ keyIdx > Len(defaultKeyFiles)
  /\ pc' = "ssh_dial"
  /\ UNCHANGED <<shapeVars, op, si, retVars, sshVars, readVars, cbVars, tunnelVars>>

\* the default case: neither a password nor a private key
SSHSwitchAgentFallsThrough ==
  /\ pc = "ssh_switch"
  /\ si.Type \notin {SSHPassword, SSHPrivateKey}
  /\ pc' = "ssh_dial"
  /\ UNCHANGED <<shapeVars, op, si, retVars, sshVars, readVars, cbVars, tunnelVars>>

SSHSwitchAgent ==
  /\ pc = "ssh_switch"
  /\ si.Type \notin {SSHPassword, SSHPrivateKey}
  /\ sshErr' = ErrAgent
  /\ pc' = "ssh_return"
  /\ UNCHANGED <<shapeVars, op, si, retVars, auth, keyIdx, probed, sshDials, client,
                 readVars, cbVars, tunnelVars>>

\* ssh.Dial("tcp", si.Address, config).  The server asks for authentication:
\* a dial that offers no method fails.
SSHDial ==
  /\ pc = "ssh_dial"
  /\ sshDials' = sshDials + 1
  /\ \/ /\ auth # <<>>
        /\ client' = [open |-> TRUE, auth |-> auth, addr |-> DialAddress(si.Address)]
        /\ sshErr' = Nil
     \/ /\ sshErr' = ErrConnect
        /\ client' = client
  /\ pc' = "ssh_return"
  /\ UNCHANGED <<shapeVars, op, si, retVars, auth, keyIdx, probed,
                 readVars, cbVars, tunnelVars>>

GetSSHClient ==
  \/ SSHSwitchPassword
  \/ SSHSwitchExplicitKey
  \/ SSHSwitchDefaultKeys
  \/ SSHProbeDefaultKey
  \/ SSHProbeDone
  \/ SSHSwitchAgent
  \/ SSHDial

(***************************************************************************)
(* Returning: the deferred Close calls run, last first.                    *)
(***************************************************************************)
Deferred(name) == \E i \in DOMAIN deferred : deferred[i] = name

Closed(name, state) == IF Deferred(name) THEN "closed" ELSE state

Return(e) ==
  /\ ret' = e
  /\ pc' = "done"
  /\ session' = Closed("session", session)
  /\ fz' = Closed("fz", fz)
  /\ listener' = Closed("localConn", listener)
  /\ remoteConn' = Closed("remoteConn", remoteConn)
  /\ deferred' = <<>>

(***************************************************************************)
(* remoteFileReader.                                                       *)
(***************************************************************************)
\* the bytes the remote command may emit
Bytes == {8, 31, 139}

Streams == UNION { [1..n -> Bytes] : n \in 0..MaxStreamLen }

NoReader == [kind |-> "none", from |-> 0]

NoInput == [gz |-> FALSE, bytes |-> <<>>]

\* what is left of the stream from position from on
Rest(from) == SubSeq(stream, from + 1, Len(stream))

\* gzip.NewReader reads the member header: the magic number and the
\* compression method, which must be 8 (deflate).  The remaining header
\* fields carry nothing the reader decides on and are left out.
GzipHeader == <<31, 139, 8>>

GzipHeaderOK(bytes) ==
  /\ Len(bytes) >= Len(GzipHeader)
  /\ SubSeq(bytes, 1, Len(GzipHeader)) = GzipHeader

\* what a reader yields when read to its end: the buffered stream itself, or
\* the inflation of the bytes that follow the gzip header
ReaderContent(r) ==
  IF r.kind = "gzip"
    THEN [gz |-> TRUE, bytes |-> Rest(r.from)]
    ELSE [gz |-> FALSE, bytes |-> Rest(r.from)]

\* client, err := getSSHClient(si)
ReadCallConnect ==
  /\ pc = "r_entry"
  /\ pc' = "ssh_switch"
  /\ UNCHANGED <<shapeVars, op, si, retVars, sshVars, readVars, cbVars, tunnelVars>>

\* if err != nil { return err }
ReadAfterConnect ==
  /\ pc = "ssh_return"
  /\ op = "read"
  /\ auth' = <<>>
  /\ keyIdx' = 0
  /\ probed' = <<>>
  /\ IF sshErr # Nil
       THEN Return(sshErr)
       ELSE /\ pc' = "r_session"
            /\ UNCHANGED retVars
  /\ UNCHANGED <<shapeVars, op, si, sshErr, sshDials, client, readVars, cbVars, tunnelVars>>

\* session, err := client.NewSession(); defer session.Close()
ReadNewSession ==
  /\ pc = "r_session"
  /\ \/ Return(ErrNewSession)
     \/ /\ session' = "open"
        /\ deferred' = Append(deferred, "session")
        /\ pc' = "r_pipe"
        /\ UNCHANGED <<ret, fz, listener, remoteConn>>
  /\ UNCHANGED <<shapeVars, op, si, sshVars, readVars, cbVars, tunnelVars>>

\* r, err := session.StdoutPipe()
ReadStdoutPipe ==
  /\ pc = "r_pipe"
  /\ \/ Return(ErrStdoutPipe)
     \/ /\ pc' = "r_start"
        /\ UNCHANGED retVars
  /\ UNCHANGED <<shapeVars, op, si, sshVars, readVars, cbVars, tunnelVars>>

\* session.Start(cmd): the remote command emits the file, gzipped or not
ReadStart ==
  /\ pc = "r_start"
  /\ \/ /\ Return(ErrStart)
        /\ UNCHANGED <<started, stream>>
     \/ \E s \in Streams :
          /\ started' = TRUE
          /\ stream' = s
          /\ pc' = "r_peek"
          /\ UNCHANGED retVars
  /\ UNCHANGED <<shapeVars, op, si, sshVars, bufPos, magicBytes, reader, waited, waitErr, cbVars, tunnelVars>>

\* magicBytes, err := buffer.Peek(2): fails when the stream ends before two
\* bytes, and leaves the read position where it was
ReadPeek ==
  /\ pc = "r_peek"
  /\ IF Len(Rest(bufPos)) < 2
       THEN /\ Return(ErrMagic)
            /\ UNCHANGED magicBytes
       ELSE /\ magicBytes' = SubSeq(Rest(bufPos), 1, 2)
            /\ pc' = "r_magic"
            /\ UNCHANGED retVars
  /\ UNCHANGED <<shapeVars, op, si, sshVars, started, stream, bufPos, reader, waited, waitErr, cbVars, tunnelVars>>

\* the gzip reader without its deferred Close
ReadWrapNoDefer ==
  /\ pc = "r_magic"
  /\ IF magicBytes[1] = 31 /\ magicBytes[2] = 139
       THEN IF ~GzipHeaderOK(Rest(bufPos))
              THEN /\ Return(ErrGzip)
                   /\ UNCHANGED <<reader, bufPos>>
              ELSE /\ bufPos' = bufPos + Len(GzipHeader)
                   /\ reader' = [kind |-> "gzip", from |-> bufPos + Len(GzipHeader)]
                   /\ fz' = "open"
                   /\ pc' = "r_callback"
                   /\ UNCHANGED <<ret, deferred, session, listener, remoteConn>>
       ELSE /\ reader' = [kind |-> "plain", from |-> bufPos]
            /\ pc' = "r_callback"
            /\ UNCHANGED <<retVars, bufPos>>
  /\ UNCHANGED <<shapeVars, op, si, sshVars, started, stream, magicBytes, waited, waitErr, cbVars, tunnelVars>>

\* var reader io.Reader = buffer; if the magic number is there,
\* fz, err := gzip.NewReader(buffer); reader = fz; defer fz.Close()
ReadWrap ==
  /\ pc = "r_magic"
  /\ IF magicBytes[1] = 31 /\ magicBytes[2] = 139
       THEN IF ~GzipHeaderOK(Rest(bufPos))
              THEN /\ Return(ErrGzip)
                   /\ UNCHANGED <<reader, bufPos>>
              ELSE /\ bufPos' = bufPos + Len(GzipHeader)
                   /\ reader' = [kind |-> "gzip", from |-> bufPos + Len(GzipHeader)]
                   /\ fz' = "open"
                   /\ deferred' = Append(deferred, "fz")
                   /\ pc' = "r_callback"
                   /\ UNCHANGED <<ret, session, listener, remoteConn>>
       ELSE /\ reader' = [kind |-> "plain", from |-> bufPos]
            /\ pc' = "r_callback"
            /\ UNCHANGED <<retVars, bufPos>>
  /\ UNCHANGED <<shapeVars, op, si, sshVars, started, stream, magicBytes, waited, waitErr, cbVars, tunnelVars>>

\* the callback's error dropped: the wait follows whatever it returned
ReadCallbackIgnoresErr ==
  /\ pc = "r_callback"
  /\ cbCalls' = cbCalls + 1
  /\ cbInput' = ReaderContent(reader)
  /\ \E e \in {Nil, CallbackErr} : cbErr' = e
  /\ pc' = "r_wait"
  /\ UNCHANGED <<shapeVars, op, si, retVars, sshVars, readVars, cbArgs, tunnelVars>>

\* err = callback(reader); if err != nil { return err }
ReadCallback ==
  /\ pc = "r_callback"
  /\ cbCalls' = cbCalls + 1
  /\ cbInput' = ReaderContent(reader)
  /\ \E e \in {Nil, CallbackErr} :
       /\ cbErr' = e
       /\ IF e # Nil
            THEN Return(e)
            ELSE /\ pc' = "r_wait"
                 /\ UNCHANGED retVars
  /\ UNCHANGED <<shapeVars, op, si, sshVars, readVars, cbArgs, tunnelVars>>

\* if err := session.Wait(); err != nil { return edsef(...) }; return nil
ReadWait ==
  /\ pc = "r_wait"
  /\ waited' = TRUE
  /\ \E e \in {Nil, Fault} :
       /\ waitErr' = e
       /\ Return(IF e # Nil THEN ErrWait ELSE Nil)
  /\ UNCHANGED <<shapeVars, op, si, sshVars, started, stream, bufPos, magicBytes, reader, cbVars, tunnelVars>>

RemoteFileReader ==
  \/ ReadCallConnect
  \/ ReadAfterConnect
  \/ ReadNewSession
  \/ ReadStdoutPipe
  \/ ReadStart
  \/ ReadPeek
  \/ ReadWrap
  \/ ReadCallback
  \/ ReadWait

(***************************************************************************)
(* withRemoteConnection: the calling goroutine.                            *)
(***************************************************************************)
\* the goroutines: the accept task and the two copy directions
Dirs == {"l2r", "r2l"}

Tasks == {"accept"} \cup Dirs

NoResult == "none"

\* the callback entered with the tunnel's host in the place of the caller's
TunnelPassThroughLocalhost ==
  /\ pc = "t_entry"
  /\ ~si.present
  /\ cbCalls' = cbCalls + 1
  /\ cbArgs' = <<"localhost", TargetPort>>
  /\ pc' = "t_direct"
  /\ UNCHANGED <<shapeVars, op, si, retVars, sshVars, readVars, cbInput, cbErr, tunnelVars>>

\* if si == nil { return cb(host, port) }: the callback is entered
TunnelPassThrough ==
  /\ pc = "t_entry"
  /\ ~si.present
  /\ cbCalls' = cbCalls + 1
  /\ cbArgs' = <<TargetHost, TargetPort>>
  /\ pc' = "t_direct"
  /\ UNCHANGED <<shapeVars, op, si, retVars, sshVars, readVars, cbInput, cbErr, tunnelVars>>

\* ... and its result is the result of the call
TunnelPassThroughReturn ==
  /\ pc = "t_direct"
  /\ \E e \in {Nil, CallbackErr} :
       /\ cbErr' = e
       /\ Return(e)
  /\ UNCHANGED <<shapeVars, op, si, sshVars, readVars, cbCalls, cbArgs, cbInput, tunnelVars>>

\* net.Listen without the deferred Close
TunnelListenNoDefer ==
  /\ pc = "t_entry"
  /\ si.present
  /\ \/ /\ Return(ErrListen)
        /\ localPort' = localPort
     \/ \E p \in EphemeralPorts :
          /\ listener' = "listening"
          /\ localPort' = p
          /\ pc' = "t_connect"
          /\ UNCHANGED <<ret, deferred, session, fz, remoteConn>>
  /\ UNCHANGED <<shapeVars, op, si, sshVars, readVars, cbVars, backlog, accepted, remoteDials,
                 taskVars, mainErr, faultSeen>>

\* localConn, err := net.Listen("tcp", "localhost:0"); defer localConn.Close()
TunnelListen ==
  /\ pc = "t_entry"
  /\ si.present
  /\ \/ /\ Return(ErrListen)
        /\ localPort' = localPort
     \/ \E p \in EphemeralPorts :
          /\ listener' = "listening"
          /\ localPort' = p
          /\ deferred' = Append(deferred, "localConn")
          /\ pc' = "t_connect"
          /\ UNCHANGED <<ret, session, fz, remoteConn>>
  /\ UNCHANGED <<shapeVars, op, si, sshVars, readVars, cbVars, backlog, accepted, remoteDials,
                 taskVars, mainErr, faultSeen>>

\* client, err := getSSHClient(*si)
TunnelCallConnect ==
  /\ pc = "t_connect"
  /\ pc' = "ssh_switch"
  /\ UNCHANGED <<shapeVars, op, si, retVars, sshVars, readVars, cbVars, tunnelVars>>

\* if err != nil { return err }
TunnelAfterConnect ==
  /\ pc = "ssh_return"
  /\ op = "tunnel"
  /\ auth' = <<>>
  /\ keyIdx' = 0
  /\ probed' = <<>>
  /\ IF sshErr # Nil
       THEN Return(sshErr)
       ELSE /\ pc' = "t_dial"
            /\ UNCHANGED retVars
  /\ UNCHANGED <<shapeVars, op, si, sshErr, sshDials, client, readVars, cbVars, tunnelVars>>

\* remoteConn, err := client.Dial("tcp", host+":"+port); defer remoteConn.Close()
TunnelDialRemote ==
  /\ pc = "t_dial"
  /\ remoteDials' = remoteDials + 1
  /\ \/ Return(ErrRemoteDial)
     \/ /\ remoteConn' = "open"
        /\ deferred' = Append(deferred, "remoteConn")
        /\ pc' = "t_go"
        /\ UNCHANGED <<ret, session, fz, listener>>
  /\ UNCHANGED <<shapeVars, op, si, sshVars, readVars, cbVars, localPort, backlog, accepted,
                 taskVars, mainErr, faultSeen>>

\* errC := make(chan error); go func() { ... }()
TunnelStartProxy ==
  /\ pc = "t_go"
  /\ acc' = "accepting"
  /\ pc' = "t_call"
  /\ UNCHANGED <<shapeVars, op, si, retVars, sshVars, readVars, cbVars, sockVars, taskErr,
                 copyPc, taskRes, sendVal, errC, mainErr, faultSeen>>

\* the callback entered with the caller's host and port
TunnelCallBodyDirect ==
  /\ pc = "t_call"
  /\ cbCalls' = cbCalls + 1
  /\ cbArgs' = <<TargetHost, TargetPort>>
  /\ pc' = "t_body"
  /\ UNCHANGED <<shapeVars, op, si, retVars, sshVars, readVars, cbInput, cbErr, tunnelVars>>

\* localPort := localConn.Addr().(*net.TCPAddr).Port;
\* cbErr := cb("localhost", fmt.Sprintf("%d", localPort)): the callback is entered
TunnelCallBody ==
  /\ pc = "t_call"
  /\ cbCalls' = cbCalls + 1
  /\ cbArgs' = <<"localhost", localPort>>
  /\ pc' = "t_body"
  /\ UNCHANGED <<shapeVars, op, si, retVars, sshVars, readVars, cbInput, cbErr, tunnelVars>>

\* the callback opens a connection to the local port
BodyConnect ==
  /\ pc = "t_body"
  /\ listener = "listening"
  /\ backlog + accepted < MaxConns
  /\ backlog' = backlog + 1
  /\ UNCHANGED <<shapeVars, op, si, pc, retVars, sshVars, readVars, cbVars, localPort, accepted,
                 remoteDials, taskVars, mainErr, faultSeen>>

\* the callback returns
TunnelBodyReturn ==
  /\ pc = "t_body"
  /\ \E e \in {Nil, CallbackErr} : cbErr' = e
  /\ faultSeen' = (\E t \in Tasks : taskRes[t] = Fault)
  /\ pc' = "t_check"
  /\ UNCHANGED <<shapeVars, op, si, retVars, sshVars, readVars, cbCalls, cbArgs, cbInput,
                 sockVars, taskVars, mainErr>>

\* the goroutine t parked on errC has handed its value over
Released(t) ==
  /\ acc' = IF t = "accept" THEN "done" ELSE acc
  /\ copyPc' = [d \in Dirs |-> IF d = t THEN "done" ELSE copyPc[d]]

\* err = <-errC in the place of the select: waits for a goroutine to send
TunnelCheckBlocking ==
  /\ pc = "t_check"
  /\ IF cbErr # Nil
       THEN /\ Return(cbErr)
            /\ UNCHANGED <<acc, copyPc, errC, mainErr>>
       ELSE /\ errC # <<>>
            /\ mainErr' = sendVal[Head(errC)]
            /\ errC' = Tail(errC)
            /\ Released(Head(errC))
            /\ Return(IF sendVal[Head(errC)] = EOF THEN Nil ELSE sendVal[Head(errC)])
  /\ UNCHANGED <<shapeVars, op, si, sshVars, readVars, cbVars, sockVars, taskErr, taskRes,
                 sendVal, faultSeen>>

\* the select before the test of cbErr
TunnelCheckSelectFirst ==
  /\ pc = "t_check"
  /\ IF errC # <<>>
       THEN /\ mainErr' = sendVal[Head(errC)]
            /\ errC' = Tail(errC)
            /\ Released(Head(errC))
            /\ Return(IF sendVal[Head(errC)] = EOF THEN Nil ELSE sendVal[Head(errC)])
       ELSE /\ Return(cbErr)
            /\ UNCHANGED <<acc, copyPc, errC, mainErr>>
  /\ UNCHANGED <<shapeVars, op, si, sshVars, readVars, cbVars, sockVars, taskErr, taskRes,
                 sendVal, faultSeen>>

\* if cbErr != nil { return cbErr }
\* select { case err = <-errC: if err == io.EOF { return nil }; return err
\*          default: return nil }
\* A receive on the unbuffered errC is ready only when a goroutine is parked
\* on its send; it takes the one that parked first.
TunnelCheck ==
  /\ pc = "t_check"
  /\ IF cbErr # Nil
       THEN /\ Return(cbErr)
            /\ UNCHANGED <<acc, copyPc, errC, mainErr>>
       ELSE IF errC # <<>>
         THEN /\ mainErr' = sendVal[Head(errC)]
              /\ errC' = Tail(errC)
              /\ Released(Head(errC))
              /\ Return(IF sendVal[Head(errC)] = EOF THEN Nil ELSE sendVal[Head(errC)])
         ELSE /\ Return(Nil)
              /\ UNCHANGED <<acc, copyPc, errC, mainErr>>
  /\ UNCHANGED <<shapeVars, op, si, sshVars, readVars, cbVars, sockVars, taskErr, taskRes,
                 sendVal, faultSeen>>

WithRemoteConnection ==
  \/ TunnelPassThrough
  \/ TunnelPassThroughReturn
  \/ TunnelListen
  \/ TunnelCallConnect
  \/ TunnelAfterConnect
  \/ TunnelDialRemote
  \/ TunnelStartProxy
  \/ TunnelCallBody
  \/ BodyConnect
  \/ TunnelBodyReturn
  \/ TunnelCheck

(***************************************************************************)
(* withRemoteConnection: the goroutines it starts.                         *)
(***************************************************************************)
\* what io.Copy may return: nil when its source ends, the error of a failed
\* read or write otherwise.  A write to the ssh channel remoteConn that was
\* closed fails with io.EOF, so only the direction that writes to it can
\* return io.EOF.
CopyResults(d) == IF d = "l2r" THEN {Nil, EOF, Fault} ELSE {Nil, Fault}

\* localConn, err := localConn.Accept() returns a connection
AcceptOK ==
  /\ acc = "accepting"
  /\ listener = "listening"
  /\ backlog > 0
  /\ backlog' = backlog - 1
  /\ accepted' = accepted + 1
  /\ taskErr' = Nil
  /\ taskRes' = [taskRes EXCEPT !["accept"] = Nil]
  /\ acc' = "spawn_l2r"
  /\ UNCHANGED <<shapeVars, op, si, pc, retVars, sshVars, readVars, cbVars, localPort, remoteDials,
                 copyPc, sendVal, errC, mainErr, faultSeen>>

\* Accept fails: the listener was closed, or the operating system refuses
AcceptFail ==
  /\ acc = "accepting"
  /\ taskErr' = Fault
  /\ taskRes' = [taskRes EXCEPT !["accept"] = Fault]
  /\ acc' = "failed"
  /\ UNCHANGED <<shapeVars, op, si, pc, retVars, sshVars, readVars, cbVars, sockVars,
                 copyPc, sendVal, errC, mainErr, faultSeen>>

\* if err != nil { errC <- err; return }: the goroutine parks on the send
AcceptReport ==
  /\ acc = "failed"
  /\ sendVal' = [sendVal EXCEPT !["accept"] = taskErr]
  /\ errC' = Append(errC, "accept")
  /\ acc' = "sending"
  /\ UNCHANGED <<shapeVars, op, si, pc, retVars, sshVars, readVars, cbVars, sockVars, taskErr,
                 copyPc, taskRes, mainErr, faultSeen>>

\* go func() { _, err = io.Copy(remoteConn, localConn); ... }()
SpawnCopyL2R ==
  /\ acc = "spawn_l2r"
  /\ copyPc' = [copyPc EXCEPT !["l2r"] = "copying"]
  /\ acc' = "spawn_r2l"
  /\ UNCHANGED <<shapeVars, op, si, pc, retVars, sshVars, readVars, cbVars, sockVars, taskErr,
                 taskRes, sendVal, errC, mainErr, faultSeen>>

\* the accept goroutine looping back to Accept after it started the copies
SpawnCopyR2LAcceptsAgain ==
  /\ acc = "spawn_r2l"
  /\ copyPc' = [copyPc EXCEPT !["r2l"] = "copying"]
  /\ acc' = "accepting"
  /\ UNCHANGED <<shapeVars, op, si, pc, retVars, sshVars, readVars, cbVars, sockVars, taskErr,
                 taskRes, sendVal, errC, mainErr, faultSeen>>

\* go func() { _, err = io.Copy(localConn, remoteConn); ... }()
SpawnCopyR2L ==
  /\ acc = "spawn_r2l"
  /\ copyPc' = [copyPc EXCEPT !["r2l"] = "copying"]
  /\ acc' = "done"
  /\ UNCHANGED <<shapeVars, op, si, pc, retVars, sshVars, readVars, cbVars, sockVars, taskErr,
                 taskRes, sendVal, errC, mainErr, faultSeen>>

\* a copy that closes both sockets itself when it fails
CopyReturnTearsDown(d) ==
  /\ copyPc[d] = "copying"
  /\ \E r \in CopyResults(d) :
       /\ taskRes' = [taskRes EXCEPT ![d] = r]
       /\ taskErr' = r
       /\ listener' = IF r = Fault THEN "closed" ELSE listener
       /\ remoteConn' = IF r = Fault THEN "closed" ELSE remoteConn
  /\ copyPc' = [copyPc EXCEPT ![d] = "copied"]
  /\ UNCHANGED <<shapeVars, op, si, pc, ret, deferred, session, fz, sshVars, readVars, cbVars,
                 sockVars, acc, sendVal, errC, mainErr, faultSeen>>

\* _, err = io.Copy(...): the copy returns and its result is stored in the
\* variable err that the two copy goroutines share
CopyReturn(d) ==
  /\ copyPc[d] = "copying"
  /\ \E r \in CopyResults(d) :
       /\ taskRes' = [taskRes EXCEPT ![d] = r]
       /\ taskErr' = r
  /\ copyPc' = [copyPc EXCEPT ![d] = "copied"]
  /\ UNCHANGED <<shapeVars, op, si, pc, retVars, sshVars, readVars, cbVars, sockVars, acc,
                 sendVal, errC, mainErr, faultSeen>>

\* errC <- err: the shared err is read and the goroutine parks on the send
CopyReport(d) ==
  /\ copyPc[d] = "copied"
  /\ sendVal' = [sendVal EXCEPT ![d] = taskErr]
  /\ errC' = Append(errC, d)
  /\ copyPc' = [copyPc EXCEPT ![d] = "sending"]
  /\ UNCHANGED <<shapeVars, op, si, pc, retVars, sshVars, readVars, cbVars, sockVars, acc,
                 taskErr, taskRes, mainErr, faultSeen>>

\* the steps of the accept goroutine
AcceptorNext ==
  \/ AcceptOK
  \/ AcceptFail
  \/ AcceptReport
  \/ SpawnCopyL2R
  \/ SpawnCopyR2L

\* the steps of the copy goroutine of direction d
CopyNext(d) == CopyReturn(d) \/ CopyReport(d)

Goroutines ==
  \/ AcceptOK
  \/ AcceptFail
  \/ AcceptReport
  \/ SpawnCopyL2R
  \/ SpawnCopyR2L
  \/ \E d \in Dirs : CopyReturn(d)
  \/ \E d \in Dirs : CopyReport(d)

(***************************************************************************)
(* Shape inference: GetShape and ShapeFromFile, as the tests of            *)
(* TestGetShape and TestShapeFromFile drive them.  A json text is a        *)
(* sequence of characters.                                                 *)
(***************************************************************************)

\* the largest number of elements a test's array holds
MaxElems == 3

\* the last argument of GetShape("", j, 50) and ShapeFromFile(.., .., 50)
MaxDepth == 50

Quote == "\""

Backslash == "\\"

Digits == {"0", "1", "2", "3", "4", "5", "6", "7", "8", "9"}

\* the objects the tests' arrays are made of
ElementTexts ==
  <<
    \* {"a": 1}
    <<"{", "\"", "a", "\"", ":", " ", "1", "}">>,
    \* {"a": "2"}
    <<"{", "\"", "a", "\"", ":", " ", "\"", "2", "\"", "}">>,
    \* {"a": "9"}
    <<"{", "\"", "a", "\"", ":", " ", "\"", "9", "\"", "}">>,
    \* {"a": 1, "b ] ": 2}
    <<"{", "\"", "a", "\"", ":", " ", "1", ",", " ", "\"", "b", " ", "]", " ", "\"", ":",
      " ", "2", "}">>,
    \* {"a": 1, "b \" ": 2}
    <<"{", "\"", "a", "\"", ":", " ", "1", ",", " ", "\"", "b", " ", "\\", "\"", " ", "\"",
      ":", " ", "2", "}">>,
    \* {"a": 1, "b": "y"}
    <<"{", "\"", "a", "\"", ":", " ", "1", ",", " ", "\"", "b", "\"", ":", " ", "\"", "y",
      "\"", "}">>,
    \* {"c": 2, "d": "x"}
    <<"{", "\"", "c", "\"", ":", " ", "2", ",", " ", "\"", "d", "\"", ":", " ", "\"", "x",
      "\"", "}">>,
    \* {"a": {"b": 1}, "d": [], "c": "2"}
    <<"{", "\"", "a", "\"", ":", " ", "{", "\"", "b", "\"", ":", " ", "1", "}", ",", " ",
      "\"", "d", "\"", ":", " ", "[", "]", ",", " ", "\"", "c", "\"", ":", " ", "\"", "2",
      "\"", "}">>
  >>

\* the test's json: an array of the elements items names, in order
RECURSIVE JoinElements(_)
JoinElements(its) ==
  IF Len(its) = 0 THEN <<>>
  ELSE IF Len(its) = 1 THEN ElementTexts[its[1]]
  ELSE ElementTexts[its[1]] \o <<",", " ">> \o JoinElements(Tail(its))

FileText(its) == <<"[">> \o JoinElements(its) \o <<"]">>

\* the bytesToRead of the tests: 8 and 200, and one between them
BytesToRead == {8, 30, 200}

\* what json.Unmarshal decodes into an interface{}
NullValue == [t |-> "null"]

BoolValue(b) == [t |-> "bool", b |-> b]

NumberValue(d) == [t |-> "number", digits |-> d]

StringValue(s) == [t |-> "string", chars |-> s]

ObjectValue(m) == [t |-> "object", members |-> m]

ArrayValue(e) == [t |-> "array", elems |-> e]

Parsed(v, next) == [ok |-> TRUE, val |-> v, pos |-> next]

SyntaxError == [ok |-> FALSE, val |-> NullValue, pos |-> 0]

RECURSIVE SkipSpace(_, _)
SkipSpace(txt, i) ==
  IF i <= Len(txt) /\ txt[i] = " " THEN SkipSpace(txt, i + 1) ELSE i

\* the index of the quote closing the string whose content starts at i, or 0
RECURSIVE StringEnd(_, _)
StringEnd(txt, i) ==
  IF i > Len(txt) THEN 0
  ELSE IF txt[i] = Backslash THEN StringEnd(txt, i + 2)
  ELSE IF txt[i] = Quote THEN i
  ELSE StringEnd(txt, i + 1)

RECURSIVE Unescape(_)
Unescape(s) ==
  IF Len(s) = 0 THEN <<>>
  ELSE IF Head(s) = Backslash /\ Len(s) >= 2
    THEN <<s[2]>> \o Unescape(SubSeq(s, 3, Len(s)))
    ELSE <<Head(s)>> \o Unescape(Tail(s))

RECURSIVE NumberEnd(_, _)
NumberEnd(txt, i) ==
  IF i <= Len(txt) /\ txt[i] \in Digits THEN NumberEnd(txt, i + 1) ELSE i

HasPrefix(txt, i, word) ==
  /\ i + Len(word) - 1 <= Len(txt)
  /\ SubSeq(txt, i, i + Len(word) - 1) = word

RECURSIVE ParseValue(_, _)
RECURSIVE ParseMembers(_, _, _)
RECURSIVE ParseElems(_, _, _)

\* the members of an object, from position i on: after the brace or a comma
ParseMembers(txt, i, m) ==
  IF i > Len(txt) THEN SyntaxError
  ELSE IF txt[i] = "}" /\ DOMAIN m = {} THEN Parsed(ObjectValue(m), i + 1)
  ELSE IF txt[i] # Quote THEN SyntaxError
  ELSE
    LET e == StringEnd(txt, i + 1)
        key == Unescape(SubSeq(txt, i + 1, e - 1))
        colon == SkipSpace(txt, e + 1)
        v == ParseValue(txt, SkipSpace(txt, colon + 1))
        n == SkipSpace(txt, v.pos)
        m2 == [k \in DOMAIN m \cup {key} |-> IF k = key THEN v.val ELSE m[k]]
    IN  IF e = 0 THEN SyntaxError
        ELSE IF colon > Len(txt) \/ txt[colon] # ":" THEN SyntaxError
        ELSE IF ~v.ok THEN SyntaxError
        ELSE IF n > Len(txt) THEN SyntaxError
        ELSE IF txt[n] = "," THEN ParseMembers(txt, SkipSpace(txt, n + 1), m2)
        ELSE IF txt[n] = "}" THEN Parsed(ObjectValue(m2), n + 1)
        ELSE SyntaxError

\* the elements of an array, from position i on: after the bracket or a comma
ParseElems(txt, i, es) ==
  IF i > Len(txt) THEN SyntaxError
  ELSE IF txt[i] = "]" /\ Len(es) = 0 THEN Parsed(ArrayValue(es), i + 1)
  ELSE
    LET v == ParseValue(txt, i)
        n == SkipSpace(txt, v.pos)
    IN  IF ~v.ok THEN SyntaxError
        ELSE IF n > Len(txt) THEN SyntaxError
        ELSE IF txt[n] = "," THEN ParseElems(txt, SkipSpace(txt, n + 1), Append(es, v.val))
        ELSE IF txt[n] = "]" THEN Parsed(ArrayValue(Append(es, v.val)), n + 1)
        ELSE SyntaxError

ParseValue(txt, i) ==
  IF i > Len(txt) THEN SyntaxError
  ELSE IF txt[i] = "{" THEN ParseMembers(txt, SkipSpace(txt, i + 1), <<>>)
  ELSE IF txt[i] = "[" THEN ParseElems(txt, SkipSpace(txt, i + 1), <<>>)
  ELSE IF txt[i] = Quote
    THEN LET e == StringEnd(txt, i + 1)
         IN  IF e = 0 THEN SyntaxError
             ELSE Parsed(StringValue(Unescape(SubSeq(txt, i + 1, e - 1))), e + 1)
  ELSE IF txt[i] \in Digits
    THEN LET e == NumberEnd(txt, i)
         IN  Parsed(NumberValue(SubSeq(txt, i, e - 1)), e)
  ELSE IF HasPrefix(txt, i, <<"t", "r", "u", "e">>) THEN Parsed(BoolValue(TRUE), i + 4)
  ELSE IF HasPrefix(txt, i, <<"f", "a", "l", "s", "e">>) THEN Parsed(BoolValue(FALSE), i + 5)
  ELSE IF HasPrefix(txt, i, <<"n", "u", "l", "l">>) THEN Parsed(NullValue, i + 4)
  ELSE SyntaxError

\* json.Unmarshal: one value, and nothing but space after it
Unmarshal(txt) ==
  LET v == ParseValue(txt, SkipSpace(txt, 1))
  IN  IF v.ok /\ SkipSpace(txt, v.pos) = Len(txt) + 1 THEN v ELSE SyntaxError

ScalarKind == "scalar"

ObjectKind == "object"

ArrayKind == "array"

VariedKind == "varied"

UnknownKind == "unknown"

NumberScalar == "number"

StringScalar == "string"

BooleanScalar == "boolean"

NullScalar == "null"

ScalarShape(name) == [Kind |-> ScalarKind, Name |-> name]

ObjectShape(children) == [Kind |-> ObjectKind, Children |-> children]

ArrayShape(children) == [Kind |-> ArrayKind, Children |-> children]

VariedShape(children) == [Kind |-> VariedKind, Children |-> children]

UnknownShape == [Kind |-> UnknownKind]

\* a nil *Shape
NoShape == [Kind |-> "nil"]

\* structural equality of two shapes
RECURSIVE ShapeEq(_, _)
ShapeEq(a, b) ==
  /\ a.Kind = b.Kind
  /\ CASE a.Kind = ScalarKind -> a.Name = b.Name
       [] a.Kind = ArrayKind -> ShapeEq(a.Children, b.Children)
       [] a.Kind = ObjectKind ->
            /\ DOMAIN a.Children = DOMAIN b.Children
            /\ \A k \in DOMAIN a.Children : ShapeEq(a.Children[k], b.Children[k])
       [] a.Kind = VariedKind ->
            /\ Len(a.Children) = Len(b.Children)
            /\ \A i \in 1..Len(a.Children) : ShapeEq(a.Children[i], b.Children[i])
       [] OTHER -> TRUE

\* the shape s is among the alternatives alts
Present(alts, s) == \E i \in 1..Len(alts) : ShapeEq(alts[i], s)

\* the alternatives with s put in front of them
AddAlternativeFirst(alts, s) ==
  IF Present(alts, s) THEN alts ELSE <<s>> \o alts

\* the alternatives with s appended, unless it is among them already
AddAlternative(alts, s) ==
  IF Present(alts, s) THEN alts ELSE Append(alts, s)

RECURSIVE AddAlternatives(_, _)
AddAlternatives(alts, more) ==
  IF Len(more) = 0 THEN alts
  ELSE AddAlternatives(AddAlternative(alts, Head(more)), Tail(more))

RECURSIVE Merge(_, _)
Merge(a, b) ==
  IF a.Kind = UnknownKind THEN b
  ELSE IF b.Kind = UnknownKind THEN a
  ELSE IF a.Kind = ScalarKind /\ b.Kind = ScalarKind /\ a.Name = b.Name THEN a
  ELSE IF a.Kind = ObjectKind /\ b.Kind = ObjectKind
    THEN ObjectShape([k \in DOMAIN a.Children \cup DOMAIN b.Children |->
           IF k \in DOMAIN a.Children /\ k \in DOMAIN b.Children
             THEN Merge(a.Children[k], b.Children[k])
           ELSE IF k \in DOMAIN a.Children THEN a.Children[k]
           ELSE b.Children[k]])
  ELSE IF a.Kind = ArrayKind /\ b.Kind = ArrayKind
    THEN ArrayShape(Merge(a.Children, b.Children))
  ELSE IF ShapeEq(a, b) THEN a
  ELSE VariedShape(AddAlternatives(IF a.Kind = VariedKind THEN a.Children ELSE <<a>>,
                                   IF b.Kind = VariedKind THEN b.Children ELSE <<b>>))

\* the left fold of Merge over the shapes ss, from the shape sofar
RECURSIVE MergeAll(_, _)
MergeAll(sofar, ss) ==
  IF Len(ss) = 0 THEN sofar ELSE MergeAll(Merge(sofar, Head(ss)), Tail(ss))

RECURSIVE GetShape(_, _)
GetShape(value, depth) ==
  IF value.t = "number" THEN ScalarShape(NumberScalar)
  ELSE IF value.t = "string" THEN ScalarShape(StringScalar)
  ELSE IF value.t = "bool" THEN ScalarShape(BooleanScalar)
  ELSE IF value.t = "null" THEN ScalarShape(NullScalar)
  ELSE IF depth = 0 THEN UnknownShape
  ELSE IF value.t = "object"
    THEN ObjectShape([k \in DOMAIN value.members |-> GetShape(value.members[k], depth - 1)])
  ELSE ArrayShape(MergeAll(UnknownShape,
         [i \in 1..Len(value.elems) |-> GetShape(value.elems[i], depth - 1)]))

\* the field name "a"
FieldA == <<"a">>

\* TestGetShape: what is expected of [{"a": 1}, {"a": "2"}, {"a": 1}]
ExpNumberFirst ==
  ArrayShape(ObjectShape([k \in {FieldA} |->
    VariedShape(<<ScalarShape(NumberScalar), ScalarShape(StringScalar)>>)]))

\* TestGetShape: what is expected of [{"a": "9"}, {"a": "2"}, {"a": 1}]
ExpStringFirst ==
  ArrayShape(ObjectShape([k \in {FieldA} |->
    VariedShape(<<ScalarShape(StringScalar), ScalarShape(NumberScalar)>>)]))

\* TestShapeFromFile: what is expected of [{"a": 1, "b": "y"}, {"c": 2, "d": "x"}]
\* with bytesToRead 8
ExpSmallBudget ==
  ArrayShape(ObjectShape([k \in {FieldA, <<"b">>} |->
    IF k = FieldA THEN ScalarShape(NumberScalar) ELSE ScalarShape(StringScalar)]))

ErrTruncated == "no complete element within the bytes read"

ErrUnmarshal == "invalid json"

\* The scanner reads the byte c at position i: st.inString and st.escaped say
\* whether c lies in a string and follows a backslash there, st.depth counts
\* the open brackets, and st.ends holds the positions at which an element of
\* the top-level array was complete.
ScanStep(st, c, i) ==
  IF st.inString
    THEN IF st.escaped THEN [st EXCEPT !.escaped = FALSE]
         ELSE IF c = Backslash THEN [st EXCEPT !.escaped = TRUE]
         ELSE IF c = Quote THEN [st EXCEPT !.inString = FALSE]
         ELSE st
  ELSE IF c = Quote THEN [st EXCEPT !.inString = TRUE]
  ELSE IF c \in {"[", "{"} THEN [st EXCEPT !.depth = st.depth + 1]
  ELSE IF c \in {"]", "}"}
    THEN [st EXCEPT !.depth = st.depth - 1,
                    !.ends = IF st.depth = 2 THEN Append(st.ends, i) ELSE st.ends]
  ELSE st

\* the scanner's state after the bytes lo..hi of txt, read from the state st:
\* the first half of the bytes, then the second; a closing bracket with none
\* open ends the scan
RECURSIVE Scan(_, _, _, _)
Scan(txt, st, lo, hi) ==
  IF lo > hi THEN st
  ELSE IF lo = hi THEN ScanStep(st, txt[lo], lo)
  ELSE LET mid == (lo + hi) \div 2
           half == Scan(txt, st, lo, mid)
       IN  IF half.depth < 0 THEN half ELSE Scan(txt, half, mid + 1, hi)

\* the positions at which an element of the top-level array of txt is complete
ElementEnds(txt) ==
  Scan(txt, [inString |-> FALSE, escaped |-> FALSE, depth |-> 0, ends |-> <<>>],
       1, Len(txt)).ends

\* the last of the positions ends that lies within the first maxBytes bytes
RECURSIVE LastWithin(_, _)
LastWithin(ends, maxBytes) ==
  IF Len(ends) = 0 THEN 0
  ELSE IF ends[Len(ends)] <= maxBytes THEN ends[Len(ends)]
  ELSE LastWithin(SubSeq(ends, 1, Len(ends) - 1), maxBytes)

\* the shape of the json text txt, or the error of decoding it
ShapeOfText(txt) ==
  LET j == Unmarshal(txt)
  IN  IF j.ok THEN [shape |-> GetShape(j.val, MaxDepth), err |-> Nil]
      ELSE [shape |-> NoShape, err |-> ErrUnmarshal]

\* ShapeFromFile failing when no element is complete within maxBytes
ShapeFromFileStrict(txt, maxBytes) ==
  IF Len(txt) <= maxBytes THEN ShapeOfText(txt)
  ELSE
    LET cut == LastWithin(ElementEnds(txt), maxBytes)
    IN  IF cut = 0 THEN [shape |-> NoShape, err |-> ErrTruncated]
        ELSE ShapeOfText(SubSeq(txt, 1, cut) \o <<"]">>)

\* ShapeFromFile(file, id, maxBytesToRead, 50): the whole file when it fits in
\* maxBytes; else the file up to the last element complete within maxBytes,
\* or up to the end of the first element when none is, closed with a bracket
ShapeFromFile(txt, maxBytes) ==
  IF Len(txt) <= maxBytes THEN ShapeOfText(txt)
  ELSE
    LET ends == ElementEnds(txt)
        within == LastWithin(ends, maxBytes)
        cut == IF within # 0 THEN within ELSE IF Len(ends) > 0 THEN ends[1] ELSE 0
    IN  IF cut = 0 THEN [shape |-> NoShape, err |-> ErrTruncated]
        ELSE ShapeOfText(SubSeq(txt, 1, cut) \o <<"]">>)

\* nothing of the shape tests has run
ShapeIdle ==
  /\ items = <<>>
  /\ file = <<>>
  /\ shape = NoShape
  /\ bytesToRead = 0
  /\ fileShape = NoShape
  /\ fileErr = NoResult

\* test.json: the test's table holds one more element of the array
WriteElement ==
  /\ op \in {"GetShape", "ShapeFromFile"}
  /\ pc = "s_json"
  /\ Len(items) < MaxElems
  /\ \E e \in DOMAIN ElementTexts :
       /\ items' = Append(items, e)
       /\ file' = FileText(Append(items, e))
  /\ UNCHANGED <<shape, bytesToRead, fileShape, fileErr, sshVars, retVars, readVars,
                 cbVars, tunnelVars, op, si, pc>>

\* json.Unmarshal([]byte(test.json), &j); s := GetShape("", j, 50)
CallGetShape ==
  /\ op = "GetShape"
  /\ pc = "s_json"
  /\ Len(file) > 0
  /\ shape' = ShapeOfText(file).shape
  /\ pc' = "done"
  /\ UNCHANGED <<items, file, bytesToRead, fileShape, fileErr, sshVars, retVars,
                 readVars, cbVars, tunnelVars, op, si>>

\* tmp.WriteString(test.json); s, err := ShapeFromFile(tmp.Name(), "x", test.bytesToRead, 50)
CallShapeFromFile ==
  /\ op = "ShapeFromFile"
  /\ pc = "s_json"
  /\ Len(file) > 0
  /\ \E b \in BytesToRead :
       /\ bytesToRead' = b
       /\ fileShape' = ShapeFromFile(file, b).shape
       /\ fileErr' = ShapeFromFile(file, b).err
  /\ pc' = "done"
  /\ UNCHANGED <<items, file, shape, sshVars, retVars, readVars, cbVars, tunnelVars,
                 op, si>>

(***************************************************************************)
(* The specification.                                                      *)
(***************************************************************************)
Init ==
  /\ op \in {"read", "tunnel"}
  /\ si \in IF op = "read" THEN ServerInfos ELSE ServerInfos \cup {NoServer}
  /\ pc = IF op = "read" THEN "r_entry" ELSE "t_entry"
  /\ ret = Nil
  /\ auth = <<>>
  /\ keyIdx = 0
  /\ probed = <<>>
  /\ sshErr = Nil
  /\ sshDials = 0
  /\ client = NoClient
  /\ session = "none"
  /\ started = FALSE
  /\ stream = <<>>
  /\ bufPos = 0
  /\ magicBytes = <<>>
  /\ reader = NoReader
  /\ fz = "none"
  /\ waited = FALSE
  /\ waitErr = NoResult
  /\ cbCalls = 0
  /\ cbArgs = <<>>
  /\ cbInput = NoInput
  /\ cbErr = Nil
  /\ deferred = <<>>
  /\ listener = "none"
  /\ localPort = NoPort
  /\ backlog = 0
  /\ accepted = 0
  /\ remoteConn = "none"
  /\ remoteDials = 0
  /\ acc = "idle"
  /\ taskErr = NoResult
  /\ copyPc = [d \in Dirs |-> "idle"]
  /\ taskRes = [t \in Tasks |-> NoResult]
  /\ sendVal = [t \in Tasks |-> NoResult]
  /\ errC = <<>>
  /\ mainErr = NoResult
  /\ faultSeen = FALSE
  /\ ShapeIdle

Next ==
  \/ GetSSHClient
  \/ RemoteFileReader
  \/ WithRemoteConnection
  \/ Goroutines

Spec == Init /\ [][Next]_vars

\* the steps of withRemoteConnection itself, without those of the callback
TunnelProgress ==
  \/ TunnelPassThrough
  \/ TunnelPassThroughReturn
  \/ TunnelListen
  \/ TunnelCallConnect
  \/ TunnelAfterConnect
  \/ TunnelDialRemote
  \/ TunnelStartProxy
  \/ TunnelCallBody
  \/ TunnelCheck

\* the tests of GetShape and ShapeFromFile, before the first of them runs
InitShape ==
  /\ op \in {"GetShape", "ShapeFromFile"}
  /\ si = NoServer
  /\ pc = "s_json"
  /\ ret = Nil
  /\ auth = <<>>
  /\ keyIdx = 0
  /\ probed = <<>>
  /\ sshErr = Nil
  /\ sshDials = 0
  /\ client = NoClient
  /\ session = "none"
  /\ started = FALSE
  /\ stream = <<>>
  /\ bufPos = 0
  /\ magicBytes = <<>>
  /\ reader = NoReader
  /\ fz = "none"
  /\ waited = FALSE
  /\ waitErr = NoResult
  /\ cbCalls = 0
  /\ cbArgs = <<>>
  /\ cbInput = NoInput
  /\ cbErr = Nil
  /\ deferred = <<>>
  /\ listener = "none"
  /\ localPort = NoPort
  /\ backlog = 0
  /\ accepted = 0
  /\ remoteConn = "none"
  /\ remoteDials = 0
  /\ acc = "idle"
  /\ taskErr = NoResult
  /\ copyPc = [d \in Dirs |-> "idle"]
  /\ taskRes = [t \in Tasks |-> NoResult]
  /\ sendVal = [t \in Tasks |-> NoResult]
  /\ errC = <<>>
  /\ mainErr = NoResult
  /\ faultSeen = FALSE
  /\ ShapeIdle

NextShape ==
  \/ WriteElement
  \/ CallGetShape
  \/ CallShapeFromFile

SpecShape == InitShape /\ [][NextShape]_vars

\* The Go scheduler runs every runnable goroutine; the callback is the
\* caller's code and may run for as long as it likes.
SpecFair ==
  /\ Spec
  /\ WF_vars(GetSSHClient)
  /\ WF_vars(RemoteFileReader)
  /\ WF_vars(TunnelProgress)
  /\ WF_vars(Goroutines)

(***************************************************************************)
(* Properties.                                                             *)
(***************************************************************************)
\* the call has returned
Returned == pc = "done"

\* a call of withRemoteConnection with a server
Tunnelled == op = "tunnel" /\ si.present

\* the goroutine t is parked on its send to errC
Parked(t) == \E i \in DOMAIN errC : errC[i] = t

\* C1: without a server, withRemoteConnection binds no listener, opens no
\* transport, dials nothing and starts no goroutine; it invokes the callback
\* once, with the caller's host and port, and returns what the callback returned.
C1_PassThrough ==
  (op = "tunnel" /\ ~si.present) =>
    /\ listener = "none"
    /\ localPort = NoPort
    /\ ~client.open
    /\ sshDials = 0
    /\ remoteConn = "none"
    /\ remoteDials = 0
    /\ acc = "idle"
    /\ \A d \in Dirs : copyPc[d] = "idle"
    /\ errC = <<>>
    /\ cbCalls <= 1
    /\ (cbCalls = 1 => cbArgs = <<TargetHost, TargetPort>>)
    /\ (Returned => cbCalls = 1 /\ ret = cbErr)

C1_Witness ==
  op = "tunnel" /\ ~si.present /\ Returned /\ cbCalls = 1 /\ ret = CallbackErr

\* C2: with a server, the callback is invoked at most once, with "localhost"
\* and the listener's port, and while it runs the listener is listening and
\* the remote target is dialled through the transport; when the listen, the
\* transport or the remote dial fails, that error is returned and the
\* callback was never invoked.
C2_BodyAfterListenAndDial ==
  Tunnelled =>
    /\ cbCalls <= 1
    /\ (cbCalls = 1 =>
          /\ cbArgs = <<"localhost", localPort>>
          /\ localPort \in EphemeralPorts
          /\ listener # "none"
          /\ client.open
          /\ remoteDials = 1
          /\ remoteConn # "none")
    /\ (pc = "t_body" => cbCalls = 1 /\ listener = "listening" /\ remoteConn = "open")
    /\ (Returned /\ listener = "none" => ret = ErrListen /\ cbCalls = 0)
    /\ (Returned /\ listener # "none" /\ ~client.open =>
          ret = sshErr /\ sshErr # Nil /\ cbCalls = 0)
    /\ (Returned /\ client.open /\ remoteConn = "none" =>
          ret = ErrRemoteDial /\ cbCalls = 0)

C2_Witness ==
  Tunnelled /\ pc = "t_body" /\ cbCalls = 1 /\ backlog = 1 /\ acc = "accepting"

\* C3: with a server, once the call has returned the listener and the remote
\* connection it opened are closed, whatever the exit path.
C3_SocketsClosedOnReturn ==
  (Tunnelled /\ Returned) => listener # "listening" /\ remoteConn # "open"

C3_Witness ==
  /\ Tunnelled
  /\ Returned
  /\ ret = Fault
  /\ listener = "closed"
  /\ remoteConn = "closed"

\* C4: when the callback returned an error, the call returns that error and
\* nothing was received from errC: every goroutine that parked on its send is
\* still parked.
C4_BodyErrorReturned ==
  (Tunnelled /\ Returned /\ cbCalls = 1 /\ cbErr # Nil) =>
    /\ ret = cbErr
    /\ mainErr = NoResult
    /\ \A t \in Tasks : sendVal[t] # NoResult => Parked(t)

C4_Witness ==
  /\ Tunnelled
  /\ Returned
  /\ cbErr = CallbackErr
  /\ ret = CallbackErr
  /\ errC # <<>>
  /\ sendVal[Head(errC)] = Fault

\* C5: after the callback returned nil the call can always take its last
\* step, whatever the goroutines are doing, and when no goroutine is parked on
\* errC at that step it returns nil.
C5_NoWaitAfterBody ==
  /\ [](pc = "t_check" => ENABLED TunnelCheck)
  /\ [][(pc = "t_check" /\ cbErr = Nil /\ errC = <<>> /\ pc' # pc)
          => (pc' = "done" /\ ret' = Nil)]_vars

C5_Witness ==
  /\ Tunnelled
  /\ Returned
  /\ cbErr = Nil
  /\ ret = Nil
  /\ acc = "done"
  /\ copyPc["l2r"] = "copying"
  /\ copyPc["r2l"] = "copied"

\* C6: when the callback returned nil and, before it returned, the accept or
\* a copy had failed with an error other than io.EOF, the call returns an error.
C6_NoFaultSwallowed ==
  (Tunnelled /\ Returned /\ cbCalls = 1 /\ cbErr = Nil /\ faultSeen) => ret # Nil

\* a PrivateKey server without a key file
DefaultKeys == si.present /\ si.Type = SSHPrivateKey /\ si.PrivateKeyFile = NoKeyFile

\* the first default key file that yielded a signer
FirstSigner == CHOOSE i \in DOMAIN probed :
  probed[i] = "signer" /\ \A j \in 1..(i - 1) : probed[j] # "signer"

\* C7: for a PrivateKey server without a key file, the dial authenticates with
\* the signer of the first default key file that yielded one.
C7_FirstDefaultKeyWins ==
  (DefaultKeys /\ pc = "ssh_dial" /\ \E i \in DOMAIN probed : probed[i] = "signer") =>
    auth = <<PublicKeys(ResolvePath(defaultKeyFiles[FirstSigner]))>>

\* C8: for a PrivateKey server without a key file, getSSHClient returns only
\* after every default key file was tried and the dial was made, and when no
\* file yielded a signer its error is the error of the dial.
C8_DefaultKeysIndependent ==
  (DefaultKeys /\ pc = "ssh_return") =>
    /\ Len(probed) = Len(defaultKeyFiles)
    /\ sshDials = 1
    /\ ((\A i \in DOMAIN probed : probed[i] # "signer") => sshErr = ErrConnect)

\* C9: getSSHClient dials at most once, and only as its last step, after the
\* authentication was resolved without error: for the Agent type and for
\* every decryption or key error it returns that error without a dial, and a
\* failed dial is returned as a connection error with no second dial.
C9_DialOnceAfterAuth ==
  /\ sshDials <= 1
  /\ (sshDials = 1 => pc \notin {"ssh_switch", "ssh_probe", "ssh_dial"})
  /\ (sshDials = 1 => sshErr \in {Nil, ErrConnect})
  /\ (sshErr \in AuthErrors => sshDials = 0 /\ ~client.open)
  /\ (si.Type = SSHAgent => sshDials = 0)
  /\ (si.Type = SSHAgent /\ pc = "ssh_return" => sshErr = ErrAgent)
  /\ (sshErr = ErrConnect => sshDials = 1 /\ ~client.open)
  /\ (pc = "ssh_return" /\ sshErr = Nil => sshDials = 1 /\ client.open)
  /\ (client.open => sshDials = 1 /\ sshErr = Nil /\ client.auth # <<>>)

C9_Witness ==
  /\ pc = "ssh_return"
  /\ si.Type = SSHPrivateKey
  /\ si.PrivateKeyFile = ExplicitKeyFile
  /\ sshErr = ErrDecryptKey
  /\ sshDials = 0

\* the gzip magic number
GzipMagic == <<31, 139>>

\* C10: for every stream the remote command emits, once remoteFileReader has
\* returned the callback was invoked, with the inflated stream when the
\* stream starts with the gzip magic number (and is a gzip stream), with the
\* stream itself from its first byte otherwise.
C10_ConsumerGivenStream ==
  (op = "read" /\ started /\ Returned) =>
    IF Len(stream) >= 2 /\ SubSeq(stream, 1, 2) = GzipMagic
      THEN GzipHeaderOK(stream) =>
             /\ cbCalls = 1
             /\ cbInput = [gz |-> TRUE, bytes |-> SubSeq(stream, Len(GzipHeader) + 1, Len(stream))]
      ELSE /\ cbCalls = 1
           /\ cbInput = [gz |-> FALSE, bytes |-> stream]

\* C11: in remoteFileReader the callback is invoked at most once and only
\* after the remote command was started; session.Wait is called only after the
\* callback returned nil; the callback's error is returned as it is; and after
\* a successful callback a failed Wait is returned as an error.
C11_ConsumeThenWait ==
  op = "read" =>
    /\ cbCalls <= 1
    /\ (cbCalls = 1 => started)
    /\ (pc = "r_wait" \/ waited => cbCalls = 1 /\ cbErr = Nil)
    /\ (cbCalls = 0 => ~waited /\ ret # ErrWait)
    /\ (Returned /\ cbCalls = 1 /\ cbErr # Nil => ret = cbErr /\ ~waited)
    /\ (Returned /\ cbCalls = 1 /\ cbErr = Nil =>
          waited /\ ret = (IF waitErr # Nil THEN ErrWait ELSE Nil))

C11_Witness ==
  /\ op = "read"
  /\ Returned
  /\ cbCalls = 1
  /\ cbErr = Nil
  /\ waitErr = Fault
  /\ ret = ErrWait
  /\ Len(stream) = MaxStreamLen

\* C12: once remoteFileReader has returned, the session it opened is closed
\* and the gzip reader, when one was created, is closed.
C12_StreamsReleased ==
  (op = "read" /\ Returned) => session # "open" /\ fz # "open"

C12_Witness ==
  /\ op = "read"
  /\ Returned
  /\ ret = CallbackErr
  /\ session = "closed"
  /\ fz = "closed"

\* C16: once withRemoteConnection has returned, no goroutine it started is
\* stuck: each one has finished or can still take a step.
C16_TasksTerminate ==
  (Tunnelled /\ Returned) =>
    /\ acc \in {"idle", "done"} \/ ENABLED AcceptorNext
    /\ \A d \in Dirs : copyPc[d] \in {"idle", "done"} \/ ENABLED CopyNext(d)

\* C18: the value a copy goroutine sends on errC is what its own io.Copy
\* returned.
C18_OwnResultSent ==
  \A d \in Dirs : sendVal[d] # NoResult => sendVal[d] = taskRes[d]

\* C19: at most one connection is accepted; the copy goroutines exist only
\* after Accept returned a connection; a failed Accept starts no copy and its
\* error is what the accept goroutine sends on errC; a further connection to
\* the local port stays unaccepted.
C19_OneConnection ==
  /\ accepted <= 1
  /\ accepted + backlog <= MaxConns
  /\ \A d \in Dirs :
       copyPc[d] # "idle" => accepted = 1 /\ taskRes["accept"] = Nil
  /\ (acc \in {"spawn_l2r", "spawn_r2l"} => accepted = 1 /\ taskRes["accept"] = Nil)
  /\ (acc = "done" /\ taskRes["accept"] = Nil => \A d \in Dirs : copyPc[d] # "idle")
  /\ (taskRes["accept"] = Fault =>
        /\ accepted = 0
        /\ \A d \in Dirs : copyPc[d] = "idle"
        /\ acc \in {"failed", "sending", "done"})
  /\ (acc = "sending" => Parked("accept") /\ sendVal["accept"] = Fault)
  /\ (sendVal["accept"] # NoResult => sendVal["accept"] = taskRes["accept"])

C19_Witness ==
  /\ Tunnelled
  /\ accepted = 1
  /\ backlog = MaxConns - 1
  /\ acc = "done"
  /\ \A d \in Dirs : copyPc[d] = "copying"
  /\ Returned

\* C20: once the call has returned, the ssh transport it opened is closed.
C20_TransportClosedOnReturn == Returned => ~client.open

\* C17 as stated: once a copy direction has failed while the callback is
\* running, both sockets become closed.
C17_TornDownOnCopyFailure ==
  (Tunnelled /\ pc = "t_body" /\ \E d \in Dirs : taskRes[d] = Fault)
    ~> (listener = "closed" /\ remoteConn = "closed")

\* C17 (amended): the listener and the remote connection are closed by the
\* return of withRemoteConnection and by nothing else; while the callback runs
\* both stay open, whatever the copy goroutines have reported.
C17_ClosedOnlyOnReturn ==
  Tunnelled =>
    /\ (pc \in {"t_body", "t_check"} => listener = "listening" /\ remoteConn = "open")
    /\ (listener = "closed" \/ remoteConn = "closed" => Returned)

C17_Witness ==
  /\ Tunnelled
  /\ pc = "t_body"
  /\ taskRes["l2r"] = Fault
  /\ copyPc["l2r"] = "sending"
  /\ listener = "listening"
  /\ remoteConn = "open"

\* the members of the element e of ElementTexts, decoded
ElementObject(e) == Unmarshal(ElementTexts[e]).val.members

\* every value the elements its hold under the field k is a scalar
ScalarField(its, k) ==
  \A i \in 1..Len(its) :
    k \in DOMAIN ElementObject(its[i]) =>
      ElementObject(its[i])[k].t \in {"number", "string", "bool", "null"}

\* the shapes of the values the elements its hold under the field k, each one
\* once, in the order in which the elements show them first
RECURSIVE FirstSeen(_, _, _)
FirstSeen(its, k, seen) ==
  IF Len(its) = 0 THEN seen
  ELSE IF k \notin DOMAIN ElementObject(Head(its)) THEN FirstSeen(Tail(its), k, seen)
  ELSE IF Present(seen, GetShape(ElementObject(Head(its))[k], MaxDepth))
    THEN FirstSeen(Tail(its), k, seen)
  ELSE FirstSeen(Tail(its), k,
                 Append(seen, GetShape(ElementObject(Head(its))[k], MaxDepth)))

\* no Varied in the shape s holds two equal members, a Varied or an Unknown
RECURSIVE NoDuplicates(_)
NoDuplicates(s) ==
  CASE s.Kind = VariedKind ->
         /\ Len(s.Children) >= 2
         /\ \A i \in 1..Len(s.Children) :
              /\ s.Children[i].Kind \notin {VariedKind, UnknownKind}
              /\ NoDuplicates(s.Children[i])
              /\ \A j \in 1..Len(s.Children) :
                   i # j => ~ShapeEq(s.Children[i], s.Children[j])
    [] s.Kind = ArrayKind -> NoDuplicates(s.Children)
    [] s.Kind = ObjectKind -> \A k \in DOMAIN s.Children : NoDuplicates(s.Children[k])
    [] OTHER -> TRUE

\* C13: for an array of objects, the shape GetShape gives a field whose values
\* are scalars is the one kind seen, or a Varied of the kinds seen, each once
\* and in the order of first occurrence ([Number, String] and [String, Number]
\* for the two arrays of the test), and no Varied anywhere in the shape holds
\* two equal members.
C13_VariedFirstSeen ==
  (op = "GetShape" /\ pc = "done") =>
    /\ shape.Kind = ArrayKind
    /\ shape.Children.Kind = ObjectKind
    /\ NoDuplicates(shape)
    /\ \A k \in DOMAIN shape.Children.Children :
         ScalarField(items, k) =>
           ShapeEq(shape.Children.Children[k],
                   IF Len(FirstSeen(items, k, <<>>)) = 1
                     THEN FirstSeen(items, k, <<>>)[1]
                     ELSE VariedShape(FirstSeen(items, k, <<>>)))
    /\ (items = <<1, 2, 1>> => ShapeEq(shape, ExpNumberFirst))
    /\ (items = <<3, 2, 1>> => ShapeEq(shape, ExpStringFirst))

C13_Witness ==
  /\ op = "GetShape"
  /\ pc = "done"
  /\ items = <<3, 2, 1>>
  /\ ShapeEq(shape, ExpStringFirst)

\* the bytes of the file up to the end of its first element
FirstElementBytes == 1 + Len(ElementTexts[items[1]])

====
